---- MODULE Spec2Model ----
(***************************************************************************)
(* The activities API of the health tracker backend: three owner-scoped    *)
(* REST resources (workouts, meals, steps) served by DRF ModelViewSets,    *)
(* with ModelSerializer validation, DjangoFilterBackend filtering and the  *)
(* companion choices endpoints.                                            *)
(*                                                                         *)
(* The three tables are disjoint and every viewset names exactly one model *)
(* in get_queryset, so a behaviour follows one table: `kind` is drawn in   *)
(* Init and never changes.                                                 *)
(***************************************************************************)
EXTENDS Integers, Sequences, FiniteSets, TLC

VARIABLES kind,     \* the resource (table and viewset) this behaviour exercises
          store,    \* the table: primary key -> row
          nextId,   \* the table's AutoField sequence
          now,      \* the timestamp of the latest insert (auto_now_add)
          req,      \* the request handled last
          resp,     \* its response
          before,   \* the table as it was when that request arrived
          solo      \* per caller: the server that has seen that caller alone

vars == <<kind, store, nextId, now, req, resp, before, solo>>

(***************************************************************************)
(* Bounds.                                                                 *)
(***************************************************************************)
\* Successful creates per behaviour (primary keys are never reused).
MaxCreates == 2

(***************************************************************************)
(* Callers and credentials.                                                *)
(***************************************************************************)
Users == {"u1", "u2"}
NoCredential == "none"
InvalidToken == "invalid"
Credentials == Users \cup {NoCredential, InvalidToken}

Kinds == {"workout", "meal", "steps"}
Null == "null"
Absent == "-"

HTTP_200_OK == 200
HTTP_201_CREATED == 201
HTTP_204_NO_CONTENT == 204
HTTP_400_BAD_REQUEST == 400
HTTP_401_UNAUTHORIZED == 401
HTTP_403_FORBIDDEN == 403
HTTP_404_NOT_FOUND == 404
HTTP_500_INTERNAL_SERVER_ERROR == 500

(***************************************************************************)
(* models.py: the declared choices, in declaration order.                  *)
(***************************************************************************)
Workout_STATUS_CHOICES ==
    << <<"planned", "Planned">>, <<"in_progress", "In Progress">>,
       <<"completed", "Completed">>, <<"cancelled", "Cancelled">> >>

Workout_WORKOUT_TYPE_CHOICES ==
    << <<"cardio", "Cardio">>, <<"strength", "Strength">>, <<"yoga", "Yoga">>,
       <<"pilates", "Pilates">>, <<"sports", "Sports">>, <<"other", "Other">> >>

Meal_STATUS_CHOICES ==
    << <<"planned", "Planned">>, <<"consumed", "Consumed">>,
       <<"skipped", "Skipped">> >>

Meal_MEAL_TYPE_CHOICES ==
    << <<"breakfast", "Breakfast">>, <<"lunch", "Lunch">>,
       <<"dinner", "Dinner">>, <<"snack", "Snack">> >>

\* The Steps model is imported by views.py and serializers.py but its
\* declaration is not among the sources; its columns are taken from the
\* specification's data model: the status choices, total_steps a non-negative
\* count, and a status default as for the other two models.
Steps_STATUS_CHOICES ==
    << <<"planned", "Planned">>, <<"in_progress", "In Progress">>,
       <<"completed", "Completed">> >>

Steps_PositiveIntegerFields == {"total_steps"}

Steps_status_default == "planned"

\* The uniqueness tuple of the specification's data model (owner, date, type,
\* creation timestamp), for the kind that has no type.
Steps_unique_together == {"user", "date", "created_at"}

ChoiceValues(choices) == {choices[i][1] : i \in DOMAIN choices}

(***************************************************************************)
(* serializers.py: Meta.fields and read_only_fields of the three           *)
(* ModelSerializers.                                                       *)
(***************************************************************************)
fields(k) ==
    CASE k = "workout" -> {"id", "user", "user_email", "date", "workout_type",
                           "duration", "calories_burned", "status",
                           "description", "created_at"}
      [] k = "meal"    -> {"id", "user", "user_email", "date", "meal_type",
                           "food_name", "calories", "status", "description",
                           "created_at"}
      [] k = "steps"   -> {"id", "user", "user_email", "date", "total_steps",
                           "status", "description", "created_at"}

read_only_fields == {"user", "created_at"}

\* id is the AutoField and user_email is declared read_only=True.
WritableFields(k) == fields(k) \ (read_only_fields \cup {"id", "user_email"})

\* user_email is a view of user.email, not a column.
ModelFields(k) == fields(k) \ {"user_email"}

(***************************************************************************)
(* models.py: the columns' declared constraints.                           *)
(***************************************************************************)
TypeFields(k) ==
    CASE k = "workout" -> {"workout_type"}
      [] k = "meal"    -> {"meal_type"}
      [] k = "steps"   -> {}

ChoiceFields(k) == TypeFields(k) \cup {"status"}

FieldChoices(k, f) ==
    CASE k = "workout" /\ f = "status"       -> Workout_STATUS_CHOICES
      [] k = "workout" /\ f = "workout_type" -> Workout_WORKOUT_TYPE_CHOICES
      [] k = "meal" /\ f = "status"          -> Meal_STATUS_CHOICES
      [] k = "meal" /\ f = "meal_type"       -> Meal_MEAL_TYPE_CHOICES
      [] k = "steps" /\ f = "status"         -> Steps_STATUS_CHOICES

PositiveIntegerFields(k) ==
    CASE k = "workout" -> {"duration", "calories_burned"}
      [] k = "meal"    -> {"calories"}
      [] k = "steps"   -> Steps_PositiveIntegerFields

\* models.PositiveIntegerField admits zero: its validator is MinValueValidator(0).
PositiveIntegerField_min_value == 0

\* A unique_together that leaves the owner out.
unique_together_without_user(k) ==
    {"date", "created_at"} \cup TypeFields(k)

\* Meta.unique_together
unique_together(k) ==
    CASE k = "workout" -> {"user", "date", "workout_type", "created_at"}
      [] k = "meal"    -> {"user", "date", "meal_type", "created_at"}
      [] k = "steps"   -> Steps_unique_together

\* status has default="planned"; description is blank=True, null=True.
StatusDefault(k) == IF k = "steps" THEN Steps_status_default ELSE "planned"

\* A serializer that asks for the status too.
RequiredFields_with_status(k) == WritableFields(k) \ {"description"}

RequiredFields(k) == WritableFields(k) \ {"status", "description"}

(***************************************************************************)
(* Requests and responses.                                                 *)
(***************************************************************************)
NoData == << >>
NoId == 0

Request(op, cred, id, data, params) ==
    [op |-> op, cred |-> cred, id |-> id, data |-> data, params |-> params]

\* data: the serialized rows (none, one, or the list); errors: the keys of the
\* field-error map of a 400; choices: the body of a choices endpoint.
Response(status, data, errs, detail) ==
    [status |-> status, data |-> data, errors |-> errs, detail |-> detail,
     choices |-> << >>]

NotAuthenticated ==
    Response(HTTP_401_UNAUTHORIZED, << >>, {},
             "Authentication credentials were not provided.")
AuthenticationFailed ==
    Response(HTTP_401_UNAUTHORIZED, << >>, {},
             "Given token not valid for any token type")
NotFound == Response(HTTP_404_NOT_FOUND, << >>, {}, "Not found.")
PermissionDenied ==
    Response(HTTP_403_FORBIDDEN, << >>, {},
             "You do not have permission to perform this action.")
ValidationError(errs) == Response(HTTP_400_BAD_REQUEST, << >>, errs, "")
\* The database refuses a row that breaks a unique constraint; nothing in the
\* views catches the exception, so the request ends as a server error.
IntegrityError ==
    Response(HTTP_500_INTERNAL_SERVER_ERROR, << >>, {}, "IntegrityError")

\* What a handler leaves behind: the table, its sequence, the clock, the response.
Outcome(st, nid, t, response) ==
    [store |-> st, nextId |-> nid, now |-> t, resp |-> response]

(***************************************************************************)
(* Serializer: validation and representation.                              *)
(***************************************************************************)
\* Validators that take a choice column for a plain CharField.
ValidValue_choices_unchecked(k, f, v) ==
    IF f \in ChoiceFields(k) THEN TRUE
    ELSE IF f \in PositiveIntegerFields(k) THEN v >= PositiveIntegerField_min_value
    ELSE IF f = "food_name" THEN v # ""
    ELSE TRUE

\* Validators that take a count column for a plain IntegerField.
ValidValue_no_min(k, f, v) ==
    IF f \in ChoiceFields(k) THEN v \in ChoiceValues(FieldChoices(k, f))
    ELSE IF f \in PositiveIntegerFields(k) THEN TRUE
    ELSE IF f = "food_name" THEN v # ""
    ELSE TRUE

\* Validators that ask a count to be strictly positive.
ValidValue_min_one(k, f, v) ==
    IF f \in ChoiceFields(k) THEN v \in ChoiceValues(FieldChoices(k, f))
    ELSE IF f \in PositiveIntegerFields(k) THEN v >= PositiveIntegerField_min_value + 1
    ELSE IF f = "food_name" THEN v # ""
    ELSE TRUE

\* One field's validators (ChoiceField, IntegerField(min_value=0), CharField
\* with allow_blank=False); DateField and the description accept the samples.
ValidValue(k, f, v) ==
    IF f \in ChoiceFields(k) THEN v \in ChoiceValues(FieldChoices(k, f))
    ELSE IF f \in PositiveIntegerFields(k) THEN v >= PositiveIntegerField_min_value
    ELSE IF f = "food_name" THEN v # ""
    ELSE TRUE

\* A serializer that does not validate a partial update.
errors_partial_unchecked(k, data, partial) ==
    {f \in WritableFields(k) :
        IF partial THEN FALSE
        ELSE IF f \in DOMAIN data THEN ~ValidValue(k, f, data[f])
        ELSE f \in RequiredFields(k)}

\* A serializer that stops at the first field it finds invalid.
errors_first_only(k, data, partial) ==
    LET all == {f \in WritableFields(k) :
                   IF f \in DOMAIN data THEN ~ValidValue(k, f, data[f])
                   ELSE ~partial /\ f \in RequiredFields(k)}
    IN  IF all = {} THEN {} ELSE {CHOOSE f \in all : TRUE}

\* Serializer.to_internal_value runs every writable field and collects all the
\* errors; a field absent from the data is an error only if it is required and
\* the update is not partial.  Read-only fields are never looked at.
errors(k, data, partial) ==
    {f \in WritableFields(k) :
        IF f \in DOMAIN data THEN ~ValidValue(k, f, data[f])
        ELSE ~partial /\ f \in RequiredFields(k)}

\* Validated data that lets the read-only columns through.
validated_data_with_read_only(k, data) ==
    [f \in (WritableFields(k) \cup read_only_fields) \cap DOMAIN data |-> data[f]]

\* The validated data: the writable fields the request carries.
validated_data(k, data) ==
    [f \in WritableFields(k) \cap DOMAIN data |-> data[f]]

UserEmail(u) == IF u = "u1" THEN "test@email.com" ELSE "other@email.com"

\* ModelSerializer.to_representation: the columns plus user_email.
to_representation(row) ==
    [f \in DOMAIN row \cup {"user_email"} |->
        IF f = "user_email" THEN UserEmail(row.user) ELSE row[f]]

\* A create that takes the owner from the request body when the body names one.
serializer_create_from_body(k, validated, request, pk, t) ==
    [f \in ModelFields(k) |->
        CASE f = "id"                -> pk
          [] f = "user"              -> IF "user" \in DOMAIN request.data
                                        THEN request.data.user ELSE request.cred
          [] f = "created_at"        -> t
          [] f \in DOMAIN validated  -> validated[f]
          [] f = "status"            -> StatusDefault(k)
          [] OTHER                   -> Null]

\* <Kind>Serializer.create: validated_data["user"] = request.user, then
\* Model.objects.create, which draws the primary key and created_at.
serializer_create(k, validated, request, pk, t) ==
    [f \in ModelFields(k) |->
        CASE f = "id"                -> pk
          [] f = "user"              -> request.cred
          [] f = "created_at"        -> t
          [] f \in DOMAIN validated  -> validated[f]
          [] f = "status"            -> StatusDefault(k)
          [] OTHER                   -> Null]

\* An update that takes the optional columns from the request alone: a status
\* or a description the request does not name falls back to its default.
serializer_update_replace(row, validated) ==
    [f \in DOMAIN row |->
        IF f \in DOMAIN validated THEN validated[f]
        ELSE IF f = "status" THEN "planned"
        ELSE IF f = "description" THEN Null
        ELSE row[f]]

\* ModelSerializer.update: setattr for every validated field, then save.
serializer_update(row, validated) ==
    [f \in DOMAIN row |-> IF f \in DOMAIN validated THEN validated[f] ELSE row[f]]

(***************************************************************************)
(* views.py: queryset, permissions, filtering, ordering.                   *)
(***************************************************************************)
\* The class attribute queryset = <Kind>.objects.all(), left in force.
get_queryset_all(st, user) == DOMAIN st

\* <Kind>.objects.filter(user=self.request.user)
get_queryset(st, user) == {pk \in DOMAIN st : st[pk].user = user}

\* A check that compares the owner with something that is never the caller.
has_object_permission_never(user, obj) == FALSE

\* IsOwner
has_object_permission(user, obj) == obj.user = user

filterset_fields(k) == {"date", "status"} \cup TypeFields(k)

\* DjangoFilterBackend validates the query parameters with the filterset's
\* form: a choice filter refuses a value outside the column's choices.
filter_errors(k, params) ==
    {f \in (filterset_fields(k) \cap ChoiceFields(k)) \cap DOMAIN params :
        params[f] \notin ChoiceValues(FieldChoices(k, f))}

\* A filter that honours the date parameter only.
filter_queryset_date_only(k, st, qs, params) ==
    {pk \in qs : "date" \in DOMAIN params => st[pk].date = params.date}

\* Exact match on every given filterset field; other parameters are ignored.
filter_queryset(k, st, qs, params) ==
    {pk \in qs : \A f \in filterset_fields(k) \cap DOMAIN params :
                    st[pk][f] = params[f]}

\* An ordering that names the date only.
ordering_date_only(a, b) == a.date > b.date

\* ordering = ["-date", "-created_at"]
ordering(a, b) ==
    \/ a.date > b.date
    \/ a.date = b.date /\ a.created_at > b.created_at

RECURSIVE SetToSeq(_)
SetToSeq(S) ==
    IF S = {} THEN << >>
    ELSE LET x == CHOOSE x \in S : \A y \in S : x <= y
         IN  <<x>> \o SetToSeq(S \ {x})

\* The rows of qs in the view's default order.
order_by(st, qs) ==
    LET pks == SetToSeq(qs)
    IN  SortSeq([i \in DOMAIN pks |-> st[pks[i]]], ordering)

\* The orders in which the database may return qs under ORDER BY date DESC,
\* created_at DESC: rows that agree on both keys come back in any order.
order_by_any(st, qs) ==
    LET n == Cardinality(qs)
        sorted(q) == /\ \A i, j \in 1 .. n : i # j => q[i] # q[j]
                     /\ \A i \in 1 .. (n - 1) : ~ordering(st[q[i + 1]], st[q[i]])
    IN  {[i \in 1 .. n |-> st[q[i]]] : q \in {q \in [1 .. n -> qs] : sorted(q)}}

\* A lookup in the whole table, leaving the owner to the permission check.
get_object_unscoped(st, user, pk) ==
    IF pk \notin DOMAIN st THEN HTTP_404_NOT_FOUND
    ELSE IF ~has_object_permission(user, st[pk]) THEN HTTP_403_FORBIDDEN
    ELSE HTTP_200_OK

\* GenericAPIView.get_object: get_object_or_404 on the caller's queryset, then
\* check_object_permissions.
get_object(st, user, pk) ==
    IF pk \notin get_queryset(st, user) THEN HTTP_404_NOT_FOUND
    ELSE IF ~has_object_permission(user, st[pk]) THEN HTTP_403_FORBIDDEN
    ELSE HTTP_200_OK

ObjectError(code) == IF code = HTTP_404_NOT_FOUND THEN NotFound ELSE PermissionDenied

(***************************************************************************)
(* views.py: the handlers of a ModelViewSet and of the choices views.      *)
(* Each takes the table, its sequence and the clock, and the request of an *)
(* authenticated caller (r.cred is request.user).                          *)
(***************************************************************************)
list(k, st, nid, t, r) ==
    LET bad == filter_errors(k, r.params)
        qs  == filter_queryset(k, st, get_queryset(st, r.cred), r.params)
        rows == order_by(st, qs)
    IN  IF bad # {} THEN Outcome(st, nid, t, ValidationError(bad))
        ELSE Outcome(st, nid, t,
                     Response(HTTP_200_OK,
                              [i \in DOMAIN rows |-> to_representation(rows[i])],
                              {}, ""))

\* A table without the unique index.
violates_unique_never(k, st, row) == FALSE

\* The unique index of the table: another row agrees with this one on every
\* column of unique_together.
violates_unique(k, st, row) ==
    \E pk \in DOMAIN st \ {row.id} :
        \A f \in unique_together(k) : st[pk][f] = row[f]

\* An insert into a table that has no unique index.
create_unchecked(k, st, nid, t, r, tick) ==
    LET errs == errors(k, r.data, FALSE)
        row  == serializer_create(k, validated_data(k, r.data), r, nid, t + tick)
    IN  IF errs # {} THEN Outcome(st, nid, t, ValidationError(errs))
        ELSE Outcome([pk \in DOMAIN st \cup {nid} |->
                         IF pk = nid THEN row ELSE st[pk]],
                     nid + 1, t + tick,
                     Response(HTTP_201_CREATED, <<to_representation(row)>>, {}, ""))

\* perform_create: serializer.save(user=self.request.user); the insert stamps
\* created_at with the clock, which has moved by tick since the last insert.
\* The serializer has no UniqueTogetherValidator (user is read-only without a
\* default), so a colliding row is refused by the database only.
create(k, st, nid, t, r, tick) ==
    LET errs == errors(k, r.data, FALSE)
        row  == serializer_create(k, validated_data(k, r.data), r, nid, t + tick)
    IN  IF errs # {} THEN Outcome(st, nid, t, ValidationError(errs))
        ELSE IF violates_unique(k, st, row) THEN Outcome(st, nid, t, IntegrityError)
        ELSE Outcome([pk \in DOMAIN st \cup {nid} |->
                         IF pk = nid THEN row ELSE st[pk]],
                     nid + 1, t + tick,
                     Response(HTTP_201_CREATED, <<to_representation(row)>>, {}, ""))

retrieve(k, st, nid, t, r) ==
    LET found == get_object(st, r.cred, r.id)
    IN  IF found # HTTP_200_OK THEN Outcome(st, nid, t, ObjectError(found))
        ELSE Outcome(st, nid, t,
                     Response(HTTP_200_OK, <<to_representation(st[r.id])>>, {}, ""))

\* An update that lets a status move forward only, in declaration order.
update_forward_only(k, st, nid, t, r, partial) ==
    LET found == get_object(st, r.cred, r.id)
        errs  == errors(k, r.data, partial)
        row   == serializer_update(st[r.id], validated_data(k, r.data))
        rank(s) == CHOOSE i \in DOMAIN FieldChoices(k, "status") :
                       FieldChoices(k, "status")[i][1] = s
    IN  IF found # HTTP_200_OK THEN Outcome(st, nid, t, ObjectError(found))
        ELSE IF errs # {} THEN Outcome(st, nid, t, ValidationError(errs))
        ELSE IF rank(row.status) < rank(st[r.id].status)
             THEN Outcome(st, nid, t, ValidationError({"status"}))
        ELSE IF violates_unique(k, st, row) THEN Outcome(st, nid, t, IntegrityError)
        ELSE Outcome([st EXCEPT ![r.id] = row], nid, t,
                     Response(HTTP_200_OK, <<to_representation(row)>>, {}, ""))

\* update (PUT) and partial_update (PATCH): the object is looked up first, the
\* data validated next, the row saved last.
update(k, st, nid, t, r, partial) ==
    LET found == get_object(st, r.cred, r.id)
        errs  == errors(k, r.data, partial)
        row   == serializer_update(st[r.id], validated_data(k, r.data))
    IN  IF found # HTTP_200_OK THEN Outcome(st, nid, t, ObjectError(found))
        ELSE IF errs # {} THEN Outcome(st, nid, t, ValidationError(errs))
        ELSE IF violates_unique(k, st, row) THEN Outcome(st, nid, t, IntegrityError)
        ELSE Outcome([st EXCEPT ![r.id] = row], nid, t,
                     Response(HTTP_200_OK, <<to_representation(row)>>, {}, ""))

\* A destroy that answers 204 and keeps the row.
destroy_soft(k, st, nid, t, r) ==
    LET found == get_object(st, r.cred, r.id)
    IN  IF found # HTTP_200_OK THEN Outcome(st, nid, t, ObjectError(found))
        ELSE Outcome(st, nid, t, Response(HTTP_204_NO_CONTENT, << >>, {}, ""))

\* DestroyModelMixin.destroy: get_object, instance.delete(), 204.
destroy(k, st, nid, t, r) ==
    LET found == get_object(st, r.cred, r.id)
    IN  IF found # HTTP_200_OK THEN Outcome(st, nid, t, ObjectError(found))
        ELSE Outcome([pk \in DOMAIN st \ {r.id} |-> st[pk]], nid, t,
                     Response(HTTP_204_NO_CONTENT, << >>, {}, ""))

\* A comprehension that walks the choices from the last to the first.
ChoiceList_reversed(choices) ==
    [i \in DOMAIN choices |->
        [value |-> choices[Len(choices) + 1 - i][1],
         label |-> choices[Len(choices) + 1 - i][2]]]

\* [{"value": choice[0], "label": choice[1]} for choice in choices]
ChoiceList(choices) ==
    [i \in DOMAIN choices |-> [value |-> choices[i][1], label |-> choices[i][2]]]

\* WorkoutChoicesView.get, MealChoicesView.get, StepsChoicesView.get
choices_get(k) ==
    CASE k = "workout" ->
            [workout_types    |-> ChoiceList(Workout_WORKOUT_TYPE_CHOICES),
             workout_statuses |-> ChoiceList(Workout_STATUS_CHOICES)]
      [] k = "meal" ->
            [meal_types    |-> ChoiceList(Meal_MEAL_TYPE_CHOICES),
             meal_statuses |-> ChoiceList(Meal_STATUS_CHOICES)]
      [] k = "steps" ->
            [steps_statuses |-> ChoiceList(Steps_STATUS_CHOICES)]

choices(k, st, nid, t, r) ==
    Outcome(st, nid, t,
            [Response(HTTP_200_OK, << >>, {}, "") EXCEPT !.choices = choices_get(k)])

\* An authenticator without a WWW-Authenticate header: the denial goes out as 403.
permission_denied_forbidden(cred) == PermissionDenied

\* APIView.initial: authentication, then permission_classes
\* (IsAuthenticated first), before any handler runs.
permission_denied(cred) ==
    IF cred = InvalidToken THEN AuthenticationFailed ELSE NotAuthenticated

\* APIView.dispatch
dispatch(k, st, nid, t, r, tick) ==
    IF r.cred \notin Users THEN Outcome(st, nid, t, permission_denied(r.cred))
    ELSE CASE r.op = "list"           -> list(k, st, nid, t, r)
           [] r.op = "create"         -> create(k, st, nid, t, r, tick)
           [] r.op = "retrieve"       -> retrieve(k, st, nid, t, r)
           [] r.op = "update"         -> update(k, st, nid, t, r, FALSE)
           [] r.op = "partial_update" -> update(k, st, nid, t, r, TRUE)
           [] r.op = "destroy"        -> destroy(k, st, nid, t, r)
           [] r.op = "choices"        -> choices(k, st, nid, t, r)

\* The outcomes a request may have: the handler's, and for a list every order
\* the database may give to rows that tie on the ordering keys.
outcomes(k, st, nid, t, r, tick) ==
    LET out == dispatch(k, st, nid, t, r, tick)
        qs  == filter_queryset(k, st, get_queryset(st, r.cred), r.params)
    IN  IF r.cred \in Users /\ r.op = "list" /\ out.resp.status = HTTP_200_OK
        THEN {[out EXCEPT !.resp.data =
                              [i \in DOMAIN rows |-> to_representation(rows[i])]] :
                 rows \in order_by_any(st, qs)}
        ELSE {out}

(***************************************************************************)
(* The requests the clients send: sample bodies around the ones the tests  *)
(* post, each valid sample also with one or two fields made invalid, with  *)
(* a forged owner and timestamp, and with a required field left out.       *)
(***************************************************************************)
With(b, f, v) == [g \in DOMAIN b \cup {f} |-> IF g = f THEN v ELSE b[g]]
Without(b, f) == [g \in DOMAIN b \ {f} |-> b[g]]

InvalidChoice == "invalid_choice"
Dates == {1, 2}

Sample1(k) ==
    CASE k = "workout" -> [date |-> 1, workout_type |-> "cardio", duration |-> 30,
                           calories_burned |-> 250, status |-> "completed"]
      [] k = "meal"    -> [date |-> 1, meal_type |-> "breakfast",
                           food_name |-> "Oatmeal", calories |-> 300,
                           status |-> "consumed"]
      [] k = "steps"   -> [date |-> 1, total_steps |-> 8500, status |-> "completed"]

\* The second sample leaves status out and carries zero in every count.
Sample2(k) ==
    CASE k = "workout" -> [date |-> 2, workout_type |-> "strength", duration |-> 0,
                           calories_burned |-> 0]
      [] k = "meal"    -> [date |-> 2, meal_type |-> "lunch", food_name |-> "Salad",
                           calories |-> 0]
      [] k = "steps"   -> [date |-> 2, total_steps |-> 0]

\* The body b with the owner forged to the other user and a forged timestamp.
Other(u) == CHOOSE v \in Users : v # u
Forged(b, u) == With(With(b, "user", Other(u)), "created_at", 0)

\* What user u posts to create.
CreateData(k, u) ==
    {Sample1(k), Sample2(k), Forged(Sample1(k), u)}
    \cup {With(Sample1(k), f, InvalidChoice) : f \in ChoiceFields(k)}
    \cup {With(Sample1(k), f, -1) : f \in PositiveIntegerFields(k)}
    \cup {With(With(Sample1(k), "status", InvalidChoice), f, -1) :
             f \in PositiveIntegerFields(k)}
    \cup {Without(Sample1(k), "date")}

\* What user u puts: the second sample with its status spelled out, the first
\* with a forged owner, one bad choice per choice field, one negative count
\* per count.
UpdateData(k, u) ==
    {With(Sample2(k), "status", "planned"), Forged(Sample1(k), u)}
    \cup {With(Sample1(k), f, InvalidChoice) : f \in ChoiceFields(k)}
    \cup {With(Sample1(k), f, -1) : f \in PositiveIntegerFields(k)}

PatchStatus(k) == IF k = "meal" THEN "skipped" ELSE "in_progress"

\* What user u patches.
PatchData(k, u) ==
    {[status |-> PatchStatus(k)], [status |-> InvalidChoice],
     Forged([status |-> PatchStatus(k)], u)}
    \cup {With(NoData, f, InvalidChoice) : f \in TypeFields(k)}
    \cup {With(NoData, f, -1) : f \in PositiveIntegerFields(k)}

ListParams(k) ==
    {NoData, [date |-> 1], [status |-> Sample1(k).status],
     [date |-> 2, status |-> "planned"], [status |-> InvalidChoice]}
    \cup {With(NoData, f, Sample1(k)[f]) : f \in TypeFields(k)}

\* Primary keys a client may name: the keys issued so far and the next one,
\* never issued (Handle keeps a request's key within 1 .. nextId).
Ids == 1 .. (MaxCreates + 1)

\* Callers without a valid token; they send one sample per operation.
Anonymous == Credentials \ Users

(***************************************************************************)
(* The state machine: the server takes one request, handles it from        *)
(* arrival to response (Handle), and the response goes out (Respond)       *)
(* before the next request is taken.                                       *)
(***************************************************************************)
NoRequest == Request("none", NoCredential, NoId, NoData, NoData)
NoResponse == Response(0, << >>, {}, "")

\* The server no caller has reached yet: for each caller its table, its
\* sequence, the keys of the shared table against the keys of this one, and
\* the response to the caller's last request.
NoSolo ==
    [u \in Users |-> [store |-> << >>, nextId |-> 1, ids |-> << >>,
                      resp |-> NoResponse]]

Init ==
    /\ kind \in Kinds
    /\ store = << >>
    /\ nextId = 1
    /\ now = 0
    /\ req = NoRequest
    /\ resp = NoResponse
    /\ before = << >>
    /\ solo = NoSolo

\* One request handled from arrival to response.
Handle(r, tick) ==
    /\ req = NoRequest
    /\ r.id <= nextId
    /\ \E out \in outcomes(kind, store, nextId, now, r, tick) :
        /\ out.nextId <= MaxCreates + 1
        /\ store' = out.store
        /\ nextId' = out.nextId
        /\ now' = out.now
        /\ req' = r
        /\ resp' = out.resp
        /\ before' = store
        /\ UNCHANGED <<kind, solo>>

List ==
    \/ \E u \in Users, p \in ListParams(kind) :
          Handle(Request("list", u, NoId, NoData, p), 0)
    \/ \E c \in Anonymous :
          Handle(Request("list", c, NoId, NoData, NoData), 0)

Create ==
    \/ \E u \in Users : \E d \in CreateData(kind, u) :
          Handle(Request("create", u, NoId, d, NoData), 1)
    \/ \E c \in Anonymous :
          Handle(Request("create", c, NoId, Sample1(kind), NoData), 1)

Retrieve ==
    \/ \E u \in Users, pk \in Ids :
          Handle(Request("retrieve", u, pk, NoData, NoData), 0)
    \/ \E c \in Anonymous :
          Handle(Request("retrieve", c, 1, NoData, NoData), 0)

Update ==
    \/ \E u \in Users, pk \in Ids : \E d \in UpdateData(kind, u) :
          Handle(Request("update", u, pk, d, NoData), 0)
    \/ \E c \in Anonymous :
          Handle(Request("update", c, 1, Sample2(kind), NoData), 0)

PartialUpdate ==
    \/ \E u \in Users, pk \in Ids : \E d \in PatchData(kind, u) :
          Handle(Request("partial_update", u, pk, d, NoData), 0)
    \/ \E c \in Anonymous :
          Handle(Request("partial_update", c, 1, [status |-> PatchStatus(kind)],
                         NoData), 0)

Destroy ==
    \/ \E u \in Users, pk \in Ids :
          Handle(Request("destroy", u, pk, NoData, NoData), 0)
    \/ \E c \in Anonymous :
          Handle(Request("destroy", c, 1, NoData, NoData), 0)

Choices ==
    \E c \in Credentials :
        Handle(Request("choices", c, NoId, NoData, NoData), 0)

\* The response leaves; the server is ready for the next request.
Respond ==
    /\ req # NoRequest
    /\ req' = NoRequest
    /\ resp' = NoResponse
    /\ before' = store
    /\ solo' = [u \in Users |-> [solo[u] EXCEPT !.resp = NoResponse]]
    /\ UNCHANGED <<kind, store, nextId, now>>

Next ==
    \/ List
    \/ Create
    \/ Retrieve
    \/ Update
    \/ PartialUpdate
    \/ Destroy
    \/ Choices
    \/ Respond

Spec == Init /\ [][Next]_vars

(***************************************************************************)
(* The same server under a wall clock.  auto_now_add stamps a row with      *)
(* timezone.now(): between two inserts the reading may have advanced, may   *)
(* be the same (two requests within one tick of the clock) or may have gone *)
(* back (the clock was adjusted).  The clients send the first sample, and   *)
(* the same with another date or another type.                              *)
(***************************************************************************)
Ticks == {-1, 0, 1}

ClockData(k) ==
    {Sample1(k), With(Sample1(k), "date", 2)}
    \cup {With(Sample1(k), f, Sample2(k)[f]) : f \in TypeFields(k)}

CreateAt ==
    \E u \in Users, tick \in Ticks : \E d \in ClockData(kind) :
        Handle(Request("create", u, NoId, d, NoData), tick)

UpdateAt ==
    \E u \in Users, pk \in Ids : \E d \in ClockData(kind) :
        Handle(Request("update", u, pk, d, NoData), 0)

DestroyAt ==
    \E u \in Users, pk \in Ids :
        Handle(Request("destroy", u, pk, NoData, NoData), 0)

ListAt ==
    \E u \in Users : Handle(Request("list", u, NoId, NoData, NoData), 0)

NextClock ==
    \/ CreateAt
    \/ UpdateAt
    \/ DestroyAt
    \/ ListAt
    \/ Respond

SpecClock == Init /\ [][NextClock]_vars

(***************************************************************************)
(* Two callers on one server, and next to it, for each caller, the server   *)
(* that receives that caller's requests alone, at the same readings of the  *)
(* clock.  A request that names a row names, on the caller's own server,    *)
(* the row the same create made there (a key that was never the caller's    *)
(* names no row there).                                                     *)
(***************************************************************************)
\* The key on u's own server of the row that has key pk on the shared one.
solo_key(u, pk) ==
    IF pk = NoId THEN NoId
    ELSE IF pk \in DOMAIN solo[u].ids THEN solo[u].ids[pk]
    ELSE solo[u].nextId

\* The bodies the two callers send: the first sample, on either date.
BothData(k) == {Sample1(k), With(Sample1(k), "date", 2)}

HandleBoth(r, tick) ==
    /\ req = NoRequest
    /\ r.id <= nextId
    /\ \E out \in outcomes(kind, store, nextId, now, r, tick) :
        LET u    == r.cred
            w    == solo[u]
            sout == dispatch(kind, w.store, w.nextId, now,
                             [r EXCEPT !.id = solo_key(u, r.id)], tick)
            ids  == IF out.nextId > nextId /\ sout.nextId > w.nextId
                    THEN [pk \in DOMAIN w.ids \cup {nextId} |->
                             IF pk = nextId THEN w.nextId ELSE w.ids[pk]]
                    ELSE w.ids
        IN  /\ out.nextId <= MaxCreates + 1
            /\ store' = out.store
            /\ nextId' = out.nextId
            /\ now' = out.now
            /\ req' = r
            /\ resp' = out.resp
            /\ before' = store
            /\ solo' = [solo EXCEPT ![u] = [store |-> sout.store,
                                            nextId |-> sout.nextId,
                                            ids |-> ids, resp |-> sout.resp]]
            /\ UNCHANGED kind

CreateBoth ==
    \E u \in Users, tick \in Ticks : \E d \in BothData(kind) :
        HandleBoth(Request("create", u, NoId, d, NoData), tick)

UpdateBoth ==
    \E u \in Users, pk \in Ids : \E d \in BothData(kind) :
        HandleBoth(Request("update", u, pk, d, NoData), 0)

DestroyBoth ==
    \E u \in Users, pk \in Ids :
        HandleBoth(Request("destroy", u, pk, NoData, NoData), 0)

RetrieveBoth ==
    \E u \in Users, pk \in Ids :
        HandleBoth(Request("retrieve", u, pk, NoData, NoData), 0)

ListBoth ==
    \E u \in Users : HandleBoth(Request("list", u, NoId, NoData, NoData), 0)

NextBoth ==
    \/ CreateBoth
    \/ UpdateBoth
    \/ DestroyBoth
    \/ RetrieveBoth
    \/ ListBoth
    \/ Respond

SpecBoth == Init /\ [][NextBoth]_vars

(***************************************************************************)
(* The same server with clients that walk a row through its statuses: they  *)
(* create the first sample with any declared status, and put or patch any   *)
(* declared status on any row.                                              *)
(***************************************************************************)
Statuses(k) == ChoiceValues(FieldChoices(k, "status"))

CreateWithStatus ==
    \E u \in Users, s \in Statuses(kind) :
        Handle(Request("create", u, NoId, With(Sample1(kind), "status", s), NoData), 1)

PutStatus ==
    \E u \in Users, pk \in Ids, s \in Statuses(kind) :
        Handle(Request("update", u, pk, With(Sample1(kind), "status", s), NoData), 0)

PatchStatusTo ==
    \E u \in Users, pk \in Ids, s \in Statuses(kind) :
        Handle(Request("partial_update", u, pk, [status |-> s], NoData), 0)

NextStatus ==
    \/ CreateWithStatus
    \/ PutStatus
    \/ PatchStatusTo
    \/ Respond

SpecStatus == Init /\ [][NextStatus]_vars

(***************************************************************************)
(* users: registration.  The behaviour follows the User table: kind is the  *)
(* users resource, store the table, nextId its AutoField sequence.          *)
(* UserRegistrationSerializer is among the sources; the User model, its     *)
(* manager and the register view are not, and follow the specification:     *)
(* POST /users/register/ is open to callers without a credential, full name *)
(* and email are required columns, email is unique.                         *)
(***************************************************************************)
UserKind == "user"

\* UserRegistrationSerializer.Meta.fields
UserRegistrationSerializer_fields == {"id", "full_name", "email", "password"}

\* password = serializers.CharField(write_only=True, min_length=8)
password_min_length == 8
write_only_fields == {"password"}

\* The columns of User that a registration must give.
User_required_fields == {"full_name", "email"}

\* EmailField's validator, on the addresses the clients send.
WellFormedEmails == {"firstuser@email.com", "duplicate@email.com"}
EmailValidator(v) == v \in WellFormedEmails

\* User.email is unique: the ModelSerializer gives the field a UniqueValidator.
UniqueValidator(st, email) == \A pk \in DOMAIN st : st[pk].email # email

\* A serializer whose email field has no UniqueValidator.
registration_errors_no_unique(st, data) ==
    {f \in UserRegistrationSerializer_fields \ {"id"} :
        IF f \notin DOMAIN data THEN f \in User_required_fields \cup {"password"}
        ELSE CASE f = "full_name" -> data[f] = ""
               [] f = "email"     -> data[f] = "" \/ ~EmailValidator(data[f])
               [] f = "password"  -> Len(data[f]) < password_min_length}

\* A serializer whose password is a plain CharField.
registration_errors_any_password(st, data) ==
    {f \in UserRegistrationSerializer_fields \ {"id"} :
        IF f \notin DOMAIN data THEN f \in User_required_fields \cup {"password"}
        ELSE CASE f = "full_name" -> data[f] = ""
               [] f = "email"     -> \/ data[f] = ""
                                     \/ ~EmailValidator(data[f])
                                     \/ ~UniqueValidator(st, data[f])
               [] f = "password"  -> data[f] = ""}

\* UserRegistrationSerializer.is_valid: every field is run and the errors are
\* collected; a field left out is an error (all three are required), a blank
\* value too; the password must have min_length characters.
registration_errors(st, data) ==
    {f \in UserRegistrationSerializer_fields \ {"id"} :
        IF f \notin DOMAIN data THEN f \in User_required_fields \cup {"password"}
        ELSE CASE f = "full_name" -> data[f] = ""
               [] f = "email"     -> \/ data[f] = ""
                                     \/ ~EmailValidator(data[f])
                                     \/ ~UniqueValidator(st, data[f])
               [] f = "password"  -> Len(data[f]) < password_min_length}

\* set_password stores a salted hash, never the password.
make_password(p) == <<"pbkdf2_sha256", p>>

\* User.objects.create_user(email=, full_name=, password=)
create_user(pk, email, full_name, password) ==
    [id |-> pk, email |-> email, full_name |-> full_name,
     password |-> make_password(password)]

\* The serializer's representation of a user: the fields that are not
\* write-only.
user_representation(row) ==
    [f \in UserRegistrationSerializer_fields \ write_only_fields |-> row[f]]

\* The register view: validate, create, answer 201 with the representation.
register(st, nid, t, r) ==
    LET errs == registration_errors(st, r.data)
        row  == create_user(nid, r.data.email, r.data.full_name, r.data.password)
    IN  IF errs # {} THEN Outcome(st, nid, t, ValidationError(errs))
        ELSE Outcome([pk \in DOMAIN st \cup {nid} |->
                         IF pk = nid THEN row ELSE st[pk]],
                     nid + 1, t,
                     Response(HTTP_201_CREATED, <<user_representation(row)>>, {}, ""))

\* The bodies the clients post: each field left out, blank, or one of the
\* values of the tests (passwords of 3, 7, 8 and 11 characters).
RegistrationData ==
    LET names     == {Absent, "", "First User"}
        emails    == {Absent, "not-an-email"} \cup WellFormedEmails
        passwords == {Absent, "123", "pass123", "pass1234", "password123"}
        body(n, e, p) ==
            LET b1 == IF n = Absent THEN NoData ELSE [full_name |-> n]
                b2 == IF e = Absent THEN b1 ELSE With(b1, "email", e)
            IN  IF p = Absent THEN b2 ELSE With(b2, "password", p)
    IN  {body(n, e, p) : n \in names, e \in emails, p \in passwords}

InitRegistration ==
    /\ kind = UserKind
    /\ store = << >>
    /\ nextId = 1
    /\ now = 0
    /\ req = NoRequest
    /\ resp = NoResponse
    /\ before = << >>
    /\ solo = NoSolo

Register ==
    \E d \in RegistrationData :
        /\ req = NoRequest
        /\ \E out \in {register(store, nextId, now,
                                 Request("register", NoCredential, NoId, d, NoData))} :
            /\ out.nextId <= MaxCreates + 1
            /\ store' = out.store
            /\ nextId' = out.nextId
            /\ now' = out.now
            /\ req' = Request("register", NoCredential, NoId, d, NoData)
            /\ resp' = out.resp
            /\ before' = store
            /\ UNCHANGED <<kind, solo>>

NextRegistration ==
    \/ Register
    \/ Respond

SpecRegistration == InitRegistration /\ [][NextRegistration]_vars

TypeOK ==
    /\ kind \in Kinds
    /\ nextId \in 1 .. (MaxCreates + 1)
    /\ DOMAIN store \subseteq 1 .. (nextId - 1)
    /\ \A pk \in DOMAIN store : DOMAIN store[pk] = ModelFields(kind)

(***************************************************************************)
(* Properties.  A state with req # NoRequest shows the request handled     *)
(* last, its response, and the table before and after.                     *)
(***************************************************************************)
DetailOps == {"retrieve", "update", "partial_update", "destroy"}
WriteOps == {"create", "update", "partial_update"}

\* The request handled last came from an authenticated caller and, if it
\* names a row, names one of the caller's own rows.
Addressed ==
    /\ req.cred \in Users
    /\ req.op \in DetailOps =>
          req.id \in DOMAIN before /\ before[req.id].user = req.cred

\* The request handled last names a row that another user owns.
CrossOwner ==
    /\ req.op \in DetailOps
    /\ req.cred \in Users
    /\ req.id \in DOMAIN before
    /\ before[req.id].user # req.cred

\* C1: for every resource kind, a successful create stores and returns a
\* record whose owner is the authenticated caller, whatever owner the
\* request body names.
C1_CreateOwnerIsCaller ==
    (req.op = "create" /\ resp.status = HTTP_201_CREATED) =>
        /\ Len(resp.data) = 1
        /\ resp.data[1].user = req.cred
        /\ resp.data[1].id \in DOMAIN store \ DOMAIN before
        /\ store[resp.data[1].id].user = req.cred

\* A create whose body names the other user as owner has succeeded.
C1_Witness ==
    /\ req.op = "create"
    /\ resp.status = HTTP_201_CREATED
    /\ "user" \in DOMAIN req.data
    /\ req.data.user \in Users \ {req.cred}
    /\ store[resp.data[1].id].user = req.cred

\* C2: a GET, PUT, PATCH or DELETE by an authenticated user on a record that
\* another user owns answers 404 without data, and the table (that record
\* included) is left as it was.
C2_CrossOwnerIs404 ==
    CrossOwner =>
        /\ resp.status = HTTP_404_NOT_FOUND
        /\ resp.data = << >>
        /\ store = before
        /\ req.id \in DOMAIN store

\* A DELETE on another user's record has been answered.
C2_Witness ==
    /\ CrossOwner
    /\ req.op = "destroy"
    /\ resp.status = HTTP_404_NOT_FOUND
    /\ store[req.id] = before[req.id]

\* The table st with the row pk never inserted.
NeverExisted(st, pk) == [i \in DOMAIN st \ {pk} |-> st[i]]

\* C3: the response to a get/update/delete on an id that exists but belongs
\* to another owner is the response the same request gets from the table in
\* which that id has never existed.
C3_CrossOwnerLikeMissing ==
    CrossOwner =>
        resp = dispatch(kind, NeverExisted(before, req.id), nextId, now, req, 0).resp

\* A PUT with valid data on another user's record has been answered as on a
\* missing id.
C3_Witness ==
    /\ CrossOwner
    /\ req.op = "update"
    /\ errors(kind, req.data, FALSE) = {}
    /\ resp = NotFound

\* Every set of filters a client may give: each filterable field absent (the
\* first value of each range below) or set to a date, to a declared choice or
\* to a value outside the choices.
ParamsOf(d, t, s) ==
    LET p1 == IF d = 0 THEN NoData ELSE [date |-> d]
        p2 == IF t = Absent THEN p1
              ELSE With(p1, CHOOSE f \in TypeFields(kind) : TRUE, t)
    IN  IF s = Absent THEN p2 ELSE With(p2, "status", s)

AllParams ==
    {ParamsOf(d, t, s) :
        d \in Dates \cup {0},
        t \in {Absent} \cup UNION {ChoiceValues(FieldChoices(kind, f)) \cup {InvalidChoice} :
                                     f \in TypeFields(kind)},
        s \in {Absent, InvalidChoice} \cup ChoiceValues(FieldChoices(kind, "status"))}

\* The rows of st that user u owns and that agree with every filter in p.
Matching(st, u, p) ==
    {pk \in DOMAIN st :
        /\ st[pk].user = u
        /\ "date" \in DOMAIN p => st[pk].date = p.date
        /\ "status" \in DOMAIN p => st[pk].status = p.status
        /\ \A f \in TypeFields(kind) \cap DOMAIN p : st[pk][f] = p[f]}

Returned(data) == {data[i].id : i \in DOMAIN data}

\* C4: whatever the table has become, a list request by caller u with any set
\* of exact-match filters over date, the type field and status returns
\* exactly u's rows that match every filter (all of u's rows without
\* filters), each once, and never a row of another user.
C4_ListExactlyOwnMatching ==
    /\ (req.op = "list" /\ req.cred \in Users) =>
          /\ Returned(resp.data) = Matching(before, req.cred, req.params)
          /\ store = before
    /\ req = NoRequest =>
          \A u \in Users, p \in AllParams :
              LET out == dispatch(kind, store, nextId, now,
                                  Request("list", u, NoId, NoData, p), 0)
              IN  /\ Returned(out.resp.data) = Matching(store, u, p)
                  /\ Len(out.resp.data) = Cardinality(Matching(store, u, p))
                  /\ \A i \in DOMAIN out.resp.data :
                        /\ out.resp.data[i].user = u
                        /\ out.resp.data[i] = to_representation(store[out.resp.data[i].id])
                  /\ out.store = store

\* A filtered list has returned the caller's matching row while another
\* user's row matching the same filters sits in the table.
C4_Witness ==
    /\ req.op = "list"
    /\ req.cred \in Users
    /\ resp.status = HTTP_200_OK
    /\ DOMAIN req.params # {}
    /\ Len(resp.data) >= 1
    /\ \E pk \in DOMAIN store :
          /\ store[pk].user # req.cred
          /\ pk \in Matching(store, store[pk].user, req.params)
          /\ pk \notin Returned(resp.data)

\* The body of the request handled last carries, for some choice field, a
\* value outside the field's declared choices.
CarriesBadChoice ==
    \E f \in ChoiceFields(kind) \cap DOMAIN req.data :
        req.data[f] \notin ChoiceValues(FieldChoices(kind, f))

\* C5: a create, PUT or PATCH whose body carries a value outside a choice
\* field's enumeration leaves the table as it was, and answers 400 (when the
\* caller is authenticated and, for an update, names one of its own rows).
C5_BadChoiceIs400 ==
    (req.op \in WriteOps /\ CarriesBadChoice) =>
        /\ store = before
        /\ Addressed => resp.status = HTTP_400_BAD_REQUEST /\ resp.data = << >>

\* A PUT by the owner with a value outside the enumeration has been refused.
C5_Witness ==
    /\ req.op = "update"
    /\ Addressed
    /\ CarriesBadChoice
    /\ resp.status = HTTP_400_BAD_REQUEST
    /\ store = before
    /\ req.id \in DOMAIN store

\* C6: in every reachable state every stored row's choice fields hold one of
\* the values declared for that field of that kind.
C6_StoredChoicesDeclared ==
    \A pk \in DOMAIN store : \A f \in ChoiceFields(kind) :
        store[pk][f] \in ChoiceValues(FieldChoices(kind, f))

\* A PATCH has changed a stored status.
C6_Witness ==
    /\ req.op = "partial_update"
    /\ resp.status = HTTP_200_OK
    /\ store[req.id].status # before[req.id].status

\* The body of the request handled last names a read-only column.
NamesReadOnly == read_only_fields \cap DOMAIN req.data # {}

\* C7: every row has one owner; the owner and the creation timestamp of a row
\* never change; a PUT or PATCH by the owner that names user or created_at
\* (and is otherwise valid) answers 200 and leaves both as they were.
C7_OwnerAndCreatedAtImmutable ==
    /\ \A pk \in DOMAIN store : store[pk].user \in Users
    /\ \A pk \in DOMAIN store \cap DOMAIN before :
          /\ store[pk].user = before[pk].user
          /\ store[pk].created_at = before[pk].created_at
    /\ (req.op \in {"update", "partial_update"} /\ Addressed /\ NamesReadOnly) =>
          /\ read_only_fields \cap resp.errors = {}
          /\ errors(kind, req.data, req.op = "partial_update") = {} =>
                /\ resp.status = HTTP_200_OK
                /\ resp.data[1].user = req.cred
                /\ resp.data[1].created_at = before[req.id].created_at

\* A PUT by the owner naming the other user as owner, and a timestamp, has
\* been answered 200.
C7_Witness ==
    /\ req.op = "update"
    /\ Addressed
    /\ "user" \in DOMAIN req.data /\ req.data.user # req.cred
    /\ "created_at" \in DOMAIN req.data
    /\ req.data.created_at # before[req.id].created_at
    /\ resp.status = HTTP_200_OK
    /\ store[req.id].user = req.cred
    /\ store[req.id] # before[req.id]

\* C8: a request to a resource endpoint or to a choices endpoint without a
\* valid bearer credential answers 401, carries no record and no choices,
\* and leaves the table as it was.
C8_UnauthenticatedIs401 ==
    (req # NoRequest /\ req.cred \notin Users) =>
        /\ resp.status = HTTP_401_UNAUTHORIZED
        /\ resp.data = << >>
        /\ resp.choices = << >>
        /\ store = before

\* A DELETE without credentials on an existing row has been refused.
C8_Witness ==
    /\ req.op = "destroy"
    /\ req.cred = NoCredential
    /\ req.id \in DOMAIN store
    /\ resp.status = HTTP_401_UNAUTHORIZED

\* The counts (duration, calories_burned, calories, total_steps) in the body.
CountsCarried == PositiveIntegerFields(kind) \cap DOMAIN req.data

C10_StepsNegativeRefusedZeroCreated ==
    (/\ kind = "steps"
     /\ req.op = "create"
     /\ req.cred \in Users
     /\ "total_steps" \in DOMAIN req.data) =>
        /\ req.data.total_steps < 0 =>
              /\ resp.status = HTTP_400_BAD_REQUEST
              /\ "total_steps" \in resp.errors
              /\ store = before
        /\ (/\ req.data.total_steps = 0
            /\ "date" \in DOMAIN req.data
            /\ "status" \in DOMAIN req.data =>
                  req.data.status \in {"planned", "in_progress", "completed"}) =>
              /\ resp.status = HTTP_201_CREATED
              /\ DOMAIN store = DOMAIN before \cup {resp.data[1].id}
              /\ resp.data[1].id \notin DOMAIN before
              /\ store[resp.data[1].id].total_steps = 0

\* The steps create of the tests (negative total_steps, undeclared status) has
\* been refused with an error on total_steps.
C10_Witness ==
    /\ kind = "steps"
    /\ req.op = "create"
    /\ req.cred \in Users
    /\ req.data.total_steps < 0
    /\ resp.status = HTTP_400_BAD_REQUEST
    /\ "total_steps" \in resp.errors
    /\ store = before

\* What is wrong with a body: a choice outside the declared values, a count
\* below zero, an empty food name, and (unless the update is partial) a
\* required field left out.
Wrong(f, v) ==
    \/ f \in ChoiceFields(kind) /\ v \notin ChoiceValues(FieldChoices(kind, f))
    \/ f \in PositiveIntegerFields(kind) /\ v < 0
    \/ f = "food_name" /\ v = ""

InvalidFields(data, partial) ==
    {f \in DOMAIN data \ {"user", "created_at", "id", "user_email"} : Wrong(f, data[f])}
    \cup (IF partial THEN {}
          ELSE (fields(kind) \ {"id", "user", "user_email", "created_at",
                                "status", "description"}) \ DOMAIN data)

\* The first sample with every field of S spoiled: a choice field set to an
\* undeclared value, a count to -1, the date left out.
RECURSIVE Spoiled(_, _)
Spoiled(b, S) ==
    IF S = {} THEN b
    ELSE LET f == CHOOSE f \in S : TRUE
             c == IF f = "date" THEN Without(b, f)
                  ELSE IF f \in ChoiceFields(kind) THEN With(b, f, InvalidChoice)
                  ELSE With(b, f, -1)
         IN  Spoiled(c, S \ {f})

SpoiledBodies ==
    {Spoiled(Sample1(kind), S) :
        S \in SUBSET (ChoiceFields(kind) \cup PositiveIntegerFields(kind) \cup {"date"})}

\* C11: a create or update (by an authenticated caller, on its own row) whose
\* body has one or more invalid fields answers 400, the error body names
\* every invalid field and no other, and the table is left as it was.  The
\* same for every combination of spoiled fields, as a create and as a PUT or
\* PATCH of a stored row by its owner.
C11_EveryInvalidFieldListed ==
    /\ (/\ req.op \in WriteOps
        /\ Addressed
        /\ InvalidFields(req.data, req.op = "partial_update") # {}) =>
          /\ resp.status = HTTP_400_BAD_REQUEST
          /\ resp.errors = InvalidFields(req.data, req.op = "partial_update")
          /\ store = before
    /\ (req = NoRequest /\ nextId <= 2) =>
          \A b \in SpoiledBodies, u \in Users :
              /\ LET out == dispatch(kind, store, nextId, now,
                                     Request("create", u, NoId, b, NoData), 1)
                 IN  InvalidFields(b, FALSE) # {} =>
                        /\ out.resp.status = HTTP_400_BAD_REQUEST
                        /\ out.resp.errors = InvalidFields(b, FALSE)
                        /\ out.store = store
              /\ \A pk \in get_queryset(store, u), partial \in BOOLEAN :
                    LET out == dispatch(kind, store, nextId, now,
                                        Request(IF partial THEN "partial_update"
                                                ELSE "update", u, pk, b, NoData), 0)
                    IN  InvalidFields(b, partial) # {} =>
                           /\ out.resp.status = HTTP_400_BAD_REQUEST
                           /\ out.resp.errors = InvalidFields(b, partial)
                           /\ out.store = store

\* A create with a negative count and an undeclared status has been refused
\* with both fields named.
C11_Witness ==
    /\ req.op = "create"
    /\ req.cred \in Users
    /\ resp.status = HTTP_400_BAD_REQUEST
    /\ "status" \in resp.errors
    /\ resp.errors \cap PositiveIntegerFields(kind) # {}
    /\ Cardinality(resp.errors) >= 2
    /\ store = before

SameOwner(a, b) == a.id # b.id /\ a.user = b.user

\* Two rows tie on the keys of the default order.
Tie(a, b) == a.date = b.date /\ a.created_at = b.created_at

Colliding(st, u, d, at) ==
    {pk \in DOMAIN st :
        /\ st[pk].user = u
        /\ st[pk].date = d.date
        /\ \A f \in TypeFields(kind) : st[pk][f] = d[f]
        /\ st[pk].created_at = at}

\* C14: a create whose (owner, date, type, creation timestamp) is the tuple
\* of a stored row fails with the database's constraint error and adds no
\* row, whatever the clock reads; a create that succeeds collides with no
\* stored row; and no two rows of the table carry the same tuple.
C14_CollidingCreateRefused ==
    /\ \A pk \in DOMAIN store :
          Colliding(store, store[pk].user, store[pk], store[pk].created_at) = {pk}
    /\ (req.op = "create" /\ resp.status = HTTP_201_CREATED) =>
          Colliding(before, req.cred, req.data, resp.data[1].created_at) = {}
    /\ (req.op = "create" /\ resp = IntegrityError) =>
          /\ store = before
          /\ \E tick \in Ticks : Colliding(before, req.cred, req.data, now + tick) # {}
    /\ req = NoRequest =>
          \A u \in Users, tick \in Ticks : \A d \in ClockData(kind) :
              LET out == dispatch(kind, store, nextId, now,
                                  Request("create", u, NoId, d, NoData), tick)
              IN  IF Colliding(store, u, d, now + tick) # {}
                  THEN out.resp = IntegrityError /\ out.store = store
                  ELSE out.resp.status = HTTP_201_CREATED

\* A create of the caller's own date and type, at the timestamp of the stored
\* row, has been refused by the constraint.
C14_Witness ==
    /\ req.op = "create"
    /\ resp = IntegrityError
    /\ store = before
    /\ \E pk \in DOMAIN store :
          /\ store[pk].user = req.cred
          /\ store[pk].date = req.data.date
          /\ \A f \in TypeFields(kind) : store[pk][f] = req.data[f]
          /\ store[pk].created_at = now

\* The mutable fields of a row: all but the key, the owner and the timestamp.
Mutable == ModelFields(kind) \ {"id", "user", "created_at"}

\* The table st after the row pk has taken the mutable fields of the body d
\* and nothing else has changed.
Patched(st, pk, d) ==
    [i \in DOMAIN st |->
        IF i # pk THEN st[i]
        ELSE [f \in DOMAIN st[i] |->
                 IF f \in Mutable \cap DOMAIN d THEN d[f] ELSE st[i][f]]]

\* Valid PATCH bodies: every subset of the fields of the second sample with a
\* status and a description added.
PatchBodies ==
    LET full == With(With(Sample2(kind), "status", PatchStatus(kind)),
                     "description", "Evening")
    IN  {[f \in S |-> full[f]] : S \in SUBSET DOMAIN full}

\* C15: a successful PATCH by the owner sets exactly the mutable fields the
\* body names to the values it gives, and leaves every other field of the
\* row, and every other row, as it was; the response shows the row as
\* stored.  The same for every subset of the mutable fields, on every row.
C15_PatchChangesOnlyNamedFields ==
    /\ (req.op = "partial_update" /\ resp.status = HTTP_200_OK) =>
          /\ before[req.id].user = req.cred
          /\ store = Patched(before, req.id, req.data)
          /\ resp.data = <<to_representation(store[req.id])>>
    /\ (req = NoRequest /\ nextId <= 3) =>
          \A pk \in DOMAIN store : \A d \in PatchBodies :
              LET out == dispatch(kind, store, nextId, now,
                                  Request("partial_update", store[pk].user, pk,
                                          d, NoData), 0)
              IN  /\ out.resp.status = HTTP_200_OK
                  /\ out.store = Patched(store, pk, d)

\* A PATCH of the status has changed the status of the caller's row while
\* another row sits in the table.
C15_Witness ==
    /\ req.op = "partial_update"
    /\ resp.status = HTTP_200_OK
    /\ DOMAIN req.data = {"status"}
    /\ store[req.id].status = req.data.status
    /\ before[req.id].status # req.data.status
    /\ \A f \in ModelFields(kind) \ {"status"} : store[req.id][f] = before[req.id][f]
    /\ \E pk \in DOMAIN store \ {req.id} : store[pk] = before[pk]

\* The keys the table has issued and holds no more: the deleted rows.
Deleted(st, nid) == (1 .. (nid - 1)) \ DOMAIN st

\* The answers to requests on deleted rows.
C16_DeletedIs404 ==
    /\ (req.op = "destroy" /\ Addressed) =>
          /\ resp.status = HTTP_204_NO_CONTENT
          /\ store = NeverExisted(before, req.id)
          /\ req.id \in Deleted(store, nextId)
    /\ (req.op \in DetailOps /\ req.cred \in Users
                             /\ req.id \in Deleted(before, nextId)) =>
          resp = NotFound /\ store = before
    /\ req = NoRequest =>
          \A pk \in Deleted(store, nextId), u \in Users :
              /\ \A op \in {"retrieve", "destroy"} :
                    dispatch(kind, store, nextId, now,
                             Request(op, u, pk, NoData, NoData), 0).resp = NotFound
              /\ \A d \in UpdateData(kind, u) :
                    dispatch(kind, store, nextId, now,
                             Request("update", u, pk, d, NoData), 0).resp = NotFound
              /\ \A d \in PatchData(kind, u) :
                    dispatch(kind, store, nextId, now,
                             Request("partial_update", u, pk, d, NoData), 0).resp
                        = NotFound

\* C16: a DELETE by the owner on a stored row answers 204 and removes that
\* row and no other; from then on every GET, PUT, PATCH or DELETE on its id
\* by any authenticated caller answers 404, and no step of the server puts a
\* row back under a deleted id.
C16_DeleteIsFinal ==
    /\ []C16_DeletedIs404
    /\ [][Deleted(store, nextId) \subseteq Deleted(store', nextId')]_vars

\* After a delete and a later create, a GET by the former owner on the
\* deleted id has been answered 404.
C16_Witness ==
    /\ req.op = "retrieve"
    /\ req.cred \in Users
    /\ req.id \in Deleted(store, nextId)
    /\ resp = NotFound
    /\ \E pk \in DOMAIN store : pk > req.id /\ store[pk].user = req.cred

\* C17: for every kind and every ordered pair (s1, s2) of its declared
\* statuses, a PUT or PATCH by the owner that sets status s2 on a row whose
\* status is s1 answers 200 and the row's status is s2 (no transition is
\* refused): for the request handled last, and for every row and every
\* declared status in every table the clients can build.
C17_AnyStatusToAnyStatus ==
    /\ (/\ req.op \in {"update", "partial_update"}
        /\ Addressed
        /\ "status" \in DOMAIN req.data
        /\ req.data.status \in Statuses(kind)
        /\ InvalidFields(req.data, req.op = "partial_update") = {}) =>
          /\ resp.status = HTTP_200_OK
          /\ store[req.id].status = req.data.status
    /\ req = NoRequest =>
          \A pk \in DOMAIN store, s2 \in Statuses(kind) :
              /\ LET out == dispatch(kind, store, nextId, now,
                                     Request("partial_update", store[pk].user, pk,
                                             [status |-> s2], NoData), 0)
                 IN  /\ out.resp.status = HTTP_200_OK
                     /\ out.store[pk].status = s2
              /\ LET out == dispatch(kind, store, nextId, now,
                                     Request("update", store[pk].user, pk,
                                             With(Sample2(kind), "status", s2),
                                             NoData), 0)
                 IN  /\ out.resp.status = HTTP_200_OK
                     /\ out.store[pk].status = s2

\* A row whose status was the last declared one has been put back to the
\* first (for a workout, cancelled -> planned).
C17_Witness ==
    LET declared == FieldChoices(kind, "status")
    IN  /\ req.op \in {"update", "partial_update"}
        /\ resp.status = HTTP_200_OK
        /\ before[req.id].status = declared[Len(declared)][1]
        /\ store[req.id].status = declared[1][1]

Values(pairs) == [i \in DOMAIN pairs |-> pairs[i].value]
Labels(pairs) == [i \in DOMAIN pairs |-> pairs[i].label]

\* The body a choices endpoint is to give for kind k: the keys and, under
\* each, the values in order.
ExpectedValues(k) ==
    CASE k = "workout" ->
            [workout_types    |-> <<"cardio", "strength", "yoga", "pilates",
                                    "sports", "other">>,
             workout_statuses |-> <<"planned", "in_progress", "completed",
                                    "cancelled">>]
      [] k = "meal" ->
            [meal_types    |-> <<"breakfast", "lunch", "dinner", "snack">>,
             meal_statuses |-> <<"planned", "consumed", "skipped">>]
      [] k = "steps" ->
            [steps_statuses |-> <<"planned", "in_progress", "completed">>]

\* The labels declared next to the values, in declaration order.
DeclaredLabels(k, key) ==
    LET declared == IF key \in {"workout_types", "meal_types"}
                    THEN FieldChoices(k, CHOOSE f \in TypeFields(k) : TRUE)
                    ELSE FieldChoices(k, "status")
    IN  [i \in DOMAIN declared |-> declared[i][2]]

ChoicesAsExpected(body) ==
    /\ DOMAIN body = DOMAIN ExpectedValues(kind)
    /\ \A key \in DOMAIN body :
          /\ Values(body[key]) = ExpectedValues(kind)[key]
          /\ Labels(body[key]) = DeclaredLabels(kind, key)
          /\ \A i \in DOMAIN body[key] : DOMAIN body[key][i] = {"value", "label"}

\* C18: a choices endpoint answers an authenticated caller 200 with, for
\* each choice field of its kind and no other key (steps: statuses only),
\* the declared {value, label} pairs in declaration order; the body is the
\* same for every authenticated caller and every table, and the request
\* leaves the table as it was.
C18_ChoicesInDeclarationOrder ==
    /\ (req.op = "choices" /\ req.cred \in Users) =>
          /\ resp.status = HTTP_200_OK
          /\ ChoicesAsExpected(resp.choices)
          /\ store = before
    /\ req = NoRequest =>
          \A u \in Users :
              ChoicesAsExpected(dispatch(kind, store, nextId, now,
                                         Request("choices", u, NoId, NoData, NoData),
                                         0).resp.choices)

\* The second user has asked for the workout choices while the table holds
\* rows, and got the types from cardio to other.
C18_Witness ==
    /\ req.op = "choices"
    /\ req.cred = "u2"
    /\ kind = "workout"
    /\ store # << >>
    /\ resp.status = HTTP_200_OK
    /\ Values(resp.choices.workout_types)[1] = "cardio"
    /\ Values(resp.choices.workout_types)[6] = "other"

\* The stored identities that use the email of the body d.
UsersOfEmail(st, d) ==
    IF "email" \in DOMAIN d THEN {pk \in DOMAIN st : st[pk].email = d.email} ELSE {}

\* C19: a registration with an email that a stored identity uses answers 400
\* with a field error on email and creates no identity; no two stored
\* identities share an email.
C19_DuplicateEmailRefused ==
    /\ \A pk1, pk2 \in DOMAIN store :
          store[pk1].email = store[pk2].email => pk1 = pk2
    /\ (req.op = "register" /\ UsersOfEmail(before, req.data) # {}) =>
          /\ resp.status = HTTP_400_BAD_REQUEST
          /\ "email" \in resp.errors
          /\ resp.data = << >>
          /\ store = before

\* A registration that is well-formed but for its email, which a stored
\* identity uses, has been refused with the error on email alone.
C19_Witness ==
    /\ req.op = "register"
    /\ UsersOfEmail(store, req.data) # {}
    /\ resp.status = HTTP_400_BAD_REQUEST
    /\ resp.errors = {"email"}
    /\ store = before

\* The fields a registration body gets wrong in the terms of C20: a field
\* left out, a password shorter than 8 characters.
Offending(d) ==
    ({"full_name", "email", "password"} \ DOMAIN d)
    \cup (IF "password" \in DOMAIN d /\ Len(d.password) < 8 THEN {"password"} ELSE {})

\* C20: a registration is accepted (201) only if it carries full name, email
\* and a password of at least 8 characters; otherwise the answer is 400 with
\* an error for each offending field and no identity is created (every
\* refusal is a 400 that creates nothing); the body of a 201 has id,
\* full_name and email, no password key, and no value that is the password;
\* the password is not stored as given.
C20_RegistrationValidated ==
    req.op = "register" =>
        /\ Offending(req.data) # {} =>
              /\ resp.status = HTTP_400_BAD_REQUEST
              /\ Offending(req.data) \subseteq resp.errors
        /\ resp.status # HTTP_201_CREATED =>
              /\ resp.status = HTTP_400_BAD_REQUEST
              /\ resp.errors # {}
              /\ resp.data = << >>
              /\ store = before
        /\ resp.status = HTTP_201_CREATED =>
              /\ Offending(req.data) = {}
              /\ Len(resp.data) = 1
              /\ DOMAIN resp.data[1] = {"id", "full_name", "email"}
              /\ resp.data[1].full_name = req.data.full_name
              /\ resp.data[1].email = req.data.email
              /\ \A f \in {"full_name", "email"} : resp.data[1][f] # req.data.password
              /\ DOMAIN store = DOMAIN before \cup {resp.data[1].id}
              /\ resp.data[1].id \notin DOMAIN before
              /\ store[resp.data[1].id].password # req.data.password
              /\ \A pk \in DOMAIN before : store[pk] = before[pk]

\* A registration with a password of 7 characters has been refused on the
\* password alone, after one with a password of 8 characters was accepted.
C20_Witness ==
    /\ req.op = "register"
    /\ "password" \in DOMAIN req.data
    /\ Len(req.data.password) = 7
    /\ resp.status = HTTP_400_BAD_REQUEST
    /\ resp.errors = {"password"}
    /\ store = before
    /\ \E pk \in DOMAIN store : store[pk].password = make_password("pass1234")

\* What a caller sees of a table: its own rows as the serializer shows them.
Observed(st, u) == {to_representation(st[pk]) : pk \in get_queryset(st, u)}

\* A row, a response row, or a set or list of them, without the key.
SansId(row) == [f \in DOMAIN row \ {"id"} |-> row[f]]
RowsSansId(data) == {SansId(data[i]) : i \in DOMAIN data}

\* The request handled last is a create by an authenticated caller with a
\* valid body.
ValidCreate ==
    /\ req.op = "create"
    /\ req.cred \in Users
    /\ InvalidFields(req.data, FALSE) = {}

\* C21 as claimed: whatever the two callers have sent, each caller observes
\* the records it would observe had the other sent nothing, and every valid
\* create has succeeded.
C21_ObservesWhatItWouldAlone ==
    /\ \A u \in Users : Observed(store, u) = Observed(solo[u].store, u)
    /\ ValidCreate => resp.status = HTTP_201_CREATED

\* C21, amended: each caller's rows are, row for row, the rows of the server
\* that has seen that caller alone, but for the keys, which come from one
\* sequence shared by all callers; every response is the response of that
\* server but for the keys; a request of one caller leaves the other's rows
\* as they were; and a valid create fails only on the unique constraint,
\* against a row of the caller's own.
C21_IndependentButForKeys ==
    /\ \A u \in Users :
          LET w   == solo[u]
              own == get_queryset(store, u)
          IN  /\ own \subseteq DOMAIN w.ids
              /\ DOMAIN w.store = {w.ids[pk] : pk \in own}
              /\ Cardinality(DOMAIN w.store) = Cardinality(own)
              /\ \A pk \in own : SansId(store[pk]) = SansId(w.store[w.ids[pk]])
    /\ req.cred \in Users =>
          /\ resp.status = solo[req.cred].resp.status
          /\ RowsSansId(resp.data) = RowsSansId(solo[req.cred].resp.data)
          /\ Len(resp.data) = Len(solo[req.cred].resp.data)
          /\ \A pk \in DOMAIN before :
                before[pk].user # req.cred =>
                    pk \in DOMAIN store /\ store[pk] = before[pk]
    /\ ValidCreate =>
          \/ resp.status = HTTP_201_CREATED
          \/ /\ resp = IntegrityError
             /\ \E pk \in get_queryset(before, req.cred) :
                   /\ before[pk].date = req.data.date
                   /\ \A f \in TypeFields(kind) : before[pk][f] = req.data[f]

\* After a create by the other caller, a caller has listed its one row: the
\* row of its own server under another key.
C21_Witness ==
    /\ req.op = "list"
    /\ req.cred \in Users
    /\ resp.status = HTTP_200_OK
    /\ Len(resp.data) = 1
    /\ \E pk \in DOMAIN store : store[pk].user # req.cred /\ pk < resp.data[1].id
    /\ solo[req.cred].resp.data[1].id # resp.data[1].id
    /\ SansId(solo[req.cred].resp.data[1]) = SansId(resp.data[1])

\* C22: every row of a caller's owner-scoped queryset passes IsOwner, so the
\* object-level check denies no request: get_object answers found or 404
\* for every caller and every key, and no request of an authenticated caller
\* on a resource endpoint is answered 403.
C22_IsOwnerNeverDenies ==
    /\ \A u \in Users : \A pk \in get_queryset(store, u) :
          has_object_permission(u, store[pk])
    /\ \A u \in Users, pk \in Ids :
          get_object(store, u, pk) \in {HTTP_200_OK, HTTP_404_NOT_FOUND}
    /\ req.cred \in Users => resp.status # HTTP_403_FORBIDDEN
    /\ (req.op \in DetailOps /\ Addressed) => resp.status # HTTP_404_NOT_FOUND

\* A caller has been given its own row while the table holds a row of the
\* other caller.
C22_Witness ==
    /\ req.op = "retrieve"
    /\ Addressed
    /\ resp.status = HTTP_200_OK
    /\ resp.data[1].user = req.cred
    /\ \E pk \in DOMAIN store : store[pk].user # req.cred

\* C23: a workout or meal create whose body leaves the status out (and is
\* otherwise valid) answers 201, and the row stored and returned has status
\* "planned"; the same for both samples with the status left out, in every
\* table.
C23_OmittedStatusIsPlanned ==
    /\ (/\ kind \in {"workout", "meal"}
        /\ ValidCreate
        /\ "status" \notin DOMAIN req.data) =>
          /\ resp.status = HTTP_201_CREATED
          /\ resp.data[1].status = "planned"
          /\ store[resp.data[1].id].status = "planned"
    /\ (kind \in {"workout", "meal"} /\ req = NoRequest) =>
          \A u \in Users : \A d \in {Sample2(kind), Without(Sample1(kind), "status")} :
              LET out == dispatch(kind, store, nextId, now,
                                  Request("create", u, NoId, d, NoData), 1)
              IN  /\ out.resp.status = HTTP_201_CREATED
                  /\ out.store[nextId].status = "planned"

\* A create without a status has stored a row whose status is "planned".
C23_Witness ==
    /\ kind \in {"workout", "meal"}
    /\ req.op = "create"
    /\ "status" \notin DOMAIN req.data
    /\ resp.status = HTTP_201_CREATED
    /\ store[resp.data[1].id].status = "planned"
    /\ resp.data[1].id \notin DOMAIN before

====
